---- MODULE Spec2Model ----
(***************************************************************************)
(* Model of src/GeneralDistsCirles.py: class Circles, the packing of       *)
(* circles in a square voxel with periodic boundaries.                     *)
(*                                                                         *)
(* Lengths are integers: one unit is voxel_size / 10.  A circle is the row *)
(* <<x, y, r>> of the numpy arrays of the source.  Euclidean distances are *)
(* compared through their squares: for a, b >= 0, sqrt(a) < b is the same  *)
(* as a < b * b, so cdist(..) < r + r_m and hypot(h, c) < r are kept exact. *)
(* The decorator numba.jit (line 70) is taken to leave the behaviour of    *)
(* _overlapping_mirrors as its Python body states it.                      *)
(***************************************************************************)
EXTENDS Integers, Sequences, FiniteSets

VARIABLES
    sampled_radii,     \* self.sampled_radii, sorted descending (line 36)
    max_iterations,    \* self.max_iterations (line 13)
    placed_mirrors,    \* the store: rows 0 .. 9N-1 of <<x, y, r>> (line 177)
    filled_positions,  \* line 178
    ridx,              \* position of the for loop of line 179: radii taken so far
    placed,            \* line 180
    i,                 \* line 181
    mirrors,           \* the candidate's 9 images, rows 0 .. 8 (line 185)
    intersects,        \* line 191 / 193
    sampled,           \* the centers drawn at line 184 so far, in order
    periodic_circles,  \* the list built by _periodic_circles (line 154)
    circles,           \* the value place_circles returns (line 203)
    pc                 \* where place_circles stands

vars == <<sampled_radii, max_iterations, placed_mirrors, filled_positions, ridx,
          placed, i, mirrors, intersects, sampled, periodic_circles, circles, pc>>

----------------------------------------------------------------------------
(* Bounds of the model and the configuration. *)

MaxN == 3        \* at most this many radii (kwargs["size"])
MaxIter == 2     \* max_iterations ranges over 1 .. MaxIter

voxel_size == 10

\* radii the sampler may deliver, in units of voxel_size / 10
RadiusValues == {1, 2, 3, 6}

\* centers np.random.random(2) * voxel_size may deliver (line 184), all in
\* [0, voxel_size) x [0, voxel_size)
Centers == {<<5, 5>>, <<1, 1>>, <<9, 9>>, <<9, 5>>, <<5, 1>>}

Sentinel == <<0, 0, 0>>

----------------------------------------------------------------------------
(* Helpers *)

Sq(a) == a * a

Range(s) == {s[k] : k \in DOMAIN s}

IsDescending(s) == \A k \in 1 .. Len(s) - 1 : s[k] >= s[k + 1]

N == Len(sampled_radii)

Abs(a) == IF a < 0 THEN -a ELSE a

Max(S) == CHOOSE m \in S : \A n \in S : m >= n

\* the length-n descending sequences over RadiusValues: np.sort(..)[::-1], line 36
RadiiOfLen(n) == {s \in [1 .. n -> RadiusValues] : IsDescending(s)}

----------------------------------------------------------------------------
(* _mirrored_circles, lines 54-68: rows 0 .. 8 in the order of the source. *)

MirrorShifts ==
    [k \in 0 .. 8 |->
        CASE k = 0 -> <<0, 0>>
          [] k = 1 -> <<-1, 0>>
          [] k = 2 -> <<1, 0>>
          [] k = 3 -> <<0, -1>>
          [] k = 4 -> <<0, 1>>
          [] k = 5 -> <<-1, -1>>
          [] k = 6 -> <<1, -1>>
          [] k = 7 -> <<-1, 1>>
          [] k = 8 -> <<1, 1>>]

_mirrored_circles(C, r) ==
    [k \in 0 .. 8 |->
        <<C[1] + MirrorShifts[k][1] * voxel_size,
          C[2] + MirrorShifts[k][2] * voxel_size,
          r>>]

----------------------------------------------------------------------------
(* _overlapping_mirrors, lines 85-96. *)

\* cdist(x, y)[row, col], squared (line 87)
cdist2(a, b) == Sq(a[1] - b[1]) + Sq(a[2] - b[2])

\* np.unique(mirrors[:, 2]), line 88
r_m(ms) == {ms[k][3] : k \in DOMAIN ms}

\* ColumnOverlaps with the candidate's radius left out of the comparison
ColumnOverlapsNoCandidateRadius(ms, p) ==
    \E row \in DOMAIN ms : cdist2(ms[row], p) < Sq(p[3])

\* line 92 for one column: np.any(d[:, col] < (r + r_m))
ColumnOverlaps(ms, p) ==
    \E row \in DOMAIN ms : \E rm \in r_m(ms) : cdist2(ms[row], p) < Sq(p[3] + rm)

\* every row of placed_mirrors is a column of d, the rows still zero included
_overlapping_mirrors(ms, pm) ==
    \E col \in DOMAIN pm : ColumnOverlaps(ms, pm[col])

----------------------------------------------------------------------------
(* _boundaries, lines 106-111, and _dist_lineseg_point, lines 130-138. *)

_boundaries ==
    << <<(<<0, 0>>), (<<voxel_size, 0>>)>>,                    \* bottom
       <<(<<0, 0>>), (<<0, voxel_size>>)>>,                    \* left
       <<(<<0, voxel_size>>), (<<voxel_size, voxel_size>>)>>,  \* top
       <<(<<voxel_size, 0>>), (<<voxel_size, voxel_size>>)>> >> \* right

\* np.linalg.norm of a vector parallel to an axis, as all four edges are
AxisNorm(v) == Abs(v[1]) + Abs(v[2])

\* the body of _dist_lineseg_point, its result squared (np.hypot(h, c), line 137)
_dist_lineseg_point(x, y, p1, p2) ==
    LET n == AxisNorm(<<p2[1] - p1[1], p2[2] - p1[2]>>)
        d == <<(p2[1] - p1[1]) \div n, (p2[2] - p1[2]) \div n>>
        s == (p1[1] - x) * d[1] + (p1[2] - y) * d[2]
        t == (x - p2[1]) * d[1] + (y - p2[2]) * d[2]
        h == Max({s, t, 0})
        c == (x - p1[1]) * d[2] - (y - p1[2]) * d[1]
    IN  Sq(h) + Sq(c)

\* the parameters of "def _dist_lineseg_point(x, y, p1, p2)": there is no self
DistLinesegPointParams == 4

\* the arguments the call self._dist_lineseg_point(x, y, p1, p2) binds:
\* the instance, then x, y, p1, p2
DistLinesegPointArgs == 5

\* line 157
InVoxel(m) == 0 <= m[1] /\ m[1] <= voxel_size /\ 0 <= m[2] /\ m[2] <= voxel_size

\* lines 159-165: some edge is nearer to the center than r
CrossesBoundary(m) ==
    \E b \in 1 .. Len(_boundaries) :
        _dist_lineseg_point(m[1], m[2], _boundaries[b][1], _boundaries[b][2]) < Sq(m[3])

----------------------------------------------------------------------------
(* place_circles, lines 177-204. *)

\* np.all(placed_mirrors == 0), line 186
AllZero(pm) == \A k \in DOMAIN pm : pm[k] = Sentinel

\* Interval counting the blocks from 0, as if filled_positions started at 0
IntervalFromZero(fp) == (fp - 1) * 9

\* line 196
Interval(fp) == fp * 9

\* the writes of lines 187-188 and 197-200: rows first .. first + 8 receive mirrors
WriteBlock(pm, ms, first) ==
    [k \in DOMAIN pm |->
        IF first <= k /\ k <= first + 8 THEN ms[k - first] ELSE pm[k]]

Init ==
    /\ sampled_radii \in UNION {RadiiOfLen(n) : n \in 1 .. MaxN}
    /\ max_iterations \in 1 .. MaxIter
    /\ placed_mirrors = [k \in 0 .. 9 * Len(sampled_radii) - 1 |-> Sentinel]
    /\ filled_positions = 1
    /\ ridx = 0
    /\ placed = FALSE
    /\ i = 0
    /\ mirrors = [k \in 0 .. 8 |-> Sentinel]
    /\ intersects = FALSE
    /\ sampled = <<>>
    /\ periodic_circles = <<>>
    /\ circles = <<>>
    /\ pc = "for"

\* line 179-181: the next radius
ForNext ==
    /\ pc = "for"
    /\ ridx < N
    /\ ridx' = ridx + 1
    /\ placed' = FALSE
    /\ i' = 0
    /\ pc' = "while"
    /\ UNCHANGED <<sampled_radii, max_iterations, placed_mirrors, filled_positions,
                   mirrors, intersects, sampled, periodic_circles, circles>>

WhileCond == ~placed /\ i < max_iterations

\* line 182 false: back to the for loop
WhileExit ==
    /\ pc = "while"
    /\ ~WhileCond
    /\ pc' = "for"
    /\ UNCHANGED <<sampled_radii, max_iterations, placed_mirrors, filled_positions,
                   ridx, placed, i, mirrors, intersects, sampled, periodic_circles,
                   circles>>

\* lines 183-189: one attempt while the store is all zero
AttemptFirst(x, y) ==
    LET ms == _mirrored_circles(<<x, y>>, sampled_radii[ridx]) IN
    /\ pc = "while"
    /\ WhileCond
    /\ AllZero(placed_mirrors)
    /\ i' = i + 1
    /\ sampled' = Append(sampled, <<x, y>>)
    /\ mirrors' = ms
    /\ placed_mirrors' = WriteBlock(placed_mirrors, ms, 0)
    /\ placed' = TRUE
    /\ UNCHANGED <<sampled_radii, max_iterations, filled_positions, ridx, intersects,
                   periodic_circles, circles, pc>>

\* lines 183-185, 190-194: the candidate overlaps; break leaves the while loop
AttemptOverlap(x, y) ==
    LET ms == _mirrored_circles(<<x, y>>, sampled_radii[ridx]) IN
    /\ pc = "while"
    /\ WhileCond
    /\ ~AllZero(placed_mirrors)
    /\ _overlapping_mirrors(ms, placed_mirrors)
    /\ i' = i + 1
    /\ sampled' = Append(sampled, <<x, y>>)
    /\ mirrors' = ms
    /\ intersects' = TRUE
    /\ pc' = "for"
    /\ UNCHANGED <<sampled_radii, max_iterations, placed_mirrors, filled_positions,
                   ridx, placed, periodic_circles, circles>>

\* lines 183-185, 190-192, 195-202: the candidate is stored
AttemptPlace(x, y) ==
    LET ms == _mirrored_circles(<<x, y>>, sampled_radii[ridx]) IN
    /\ pc = "while"
    /\ WhileCond
    /\ ~AllZero(placed_mirrors)
    /\ ~_overlapping_mirrors(ms, placed_mirrors)
    /\ i' = i + 1
    /\ sampled' = Append(sampled, <<x, y>>)
    /\ mirrors' = ms
    /\ intersects' = FALSE
    /\ placed_mirrors' = WriteBlock(placed_mirrors, ms, Interval(filled_positions))
    /\ placed' = TRUE
    /\ filled_positions' = filled_positions + 1
    /\ UNCHANGED <<sampled_radii, max_iterations, ridx, periodic_circles, circles, pc>>

\* line 203, _periodic_circles(placed_mirrors), lines 153-163: the first row is
\* appended when its center is in the voxel, then the call of line 163 hands five
\* arguments to a function of four parameters and Python raises TypeError, which
\* nothing catches: place_circles returns no value.
PeriodicCirclesRaises ==
    /\ pc = "for"
    /\ ridx = N
    /\ DistLinesegPointArgs # DistLinesegPointParams
    /\ periodic_circles' = IF InVoxel(placed_mirrors[0])
                              THEN <<placed_mirrors[0]>>
                              ELSE <<>>
    /\ pc' = "TypeError"
    /\ UNCHANGED <<sampled_radii, max_iterations, placed_mirrors, filled_positions,
                   ridx, placed, i, mirrors, intersects, sampled, circles>>

Next ==
    \/ ForNext
    \/ WhileExit
    \/ \E C \in Centers : AttemptFirst(C[1], C[2])
    \/ \E C \in Centers : AttemptOverlap(C[1], C[2])
    \/ \E C \in Centers : AttemptPlace(C[1], C[2])
    \/ PeriodicCirclesRaises

Spec == Init /\ [][Next]_vars

----------------------------------------------------------------------------
(* What the properties below speak of. *)

Rows == DOMAIN placed_mirrors

\* the 9-row block a row belongs to
Block(k) == k \div 9

\* a row written by an acceptance: every radius of the model is > 0
Accepted(k) == placed_mirrors[k] # Sentinel

AcceptedBlocks(pm) == {b \in 0 .. (N - 1) : pm[9 * b] # Sentinel}

Ended == pc \in {"done", "TypeError"}

\* the records of the value place_circles returned; none when it raised
PackedResult == IF pc = "done" THEN Range(circles) ELSE {}

\* some candidate image is nearer than rp + rc to a row an acceptance wrote
OverlapsAccepted(ms, pm) ==
    \E col \in DOMAIN pm :
        /\ pm[col] # Sentinel
        /\ \E row \in DOMAIN ms : cdist2(ms[row], pm[col]) < Sq(pm[col][3] + ms[row][3])

\* the store as it was before the latest block was written
StoreBeforeLastPlace ==
    WriteBlock(placed_mirrors, [k \in 0 .. 8 |-> Sentinel], Interval(filled_positions - 1))

----------------------------------------------------------------------------
(* C1: any two stored images that belong to two different accepted circles *)
(* have centers at least the sum of their radii apart.                     *)
C1_NoOverlap ==
    \A a \in Rows, b \in Rows :
        (Accepted(a) /\ Accepted(b) /\ Block(a) # Block(b))
            => cdist2(placed_mirrors[a], placed_mirrors[b])
                   >= Sq(placed_mirrors[a][3] + placed_mirrors[b][3])

\* two circles are stored, the second after passing the overlap test, and are tangent
C1_Witness ==
    /\ filled_positions >= 2
    /\ \E a \in Rows, b \in Rows :
          /\ Accepted(a) /\ Accepted(b) /\ Block(a) # Block(b)
          /\ cdist2(placed_mirrors[a], placed_mirrors[b])
                 = Sq(placed_mirrors[a][3] + placed_mirrors[b][3])

(* C2: a radius is dropped only after max_iterations candidates were tried: *)
(* when the while loop is left without a placement, i = max_iterations.    *)
C2_DroppedOnlyAfterBudget ==
    (pc = "for" /\ ridx >= 1 /\ ~placed) => i = max_iterations

(* C3: the overlap test answers true exactly when a candidate image is     *)
(* nearer than rp + rc to a stored image of an accepted circle; rows that  *)
(* are still zero never make a candidate overlap.                          *)
C3_OverlapIffAccepted ==
    /\ intersects => OverlapsAccepted(mirrors, placed_mirrors)
    /\ (placed /\ filled_positions >= 2)
           => ~OverlapsAccepted(mirrors, StoreBeforeLastPlace)

(* C4: radii 3, 2, 1 (voxel_size 10) with the centers (5,5), (1,1), (9,9)  *)
(* drawn in that order: all three circles are accepted and the result      *)
(* holds exactly these three records.                                      *)
C4_Scenario ==
    (/\ sampled_radii = <<3, 2, 1>>
     /\ sampled = << <<5, 5>>, <<1, 1>>, <<9, 9>> >>
     /\ pc \notin {"for", "while"})
        => /\ placed_mirrors =
                 WriteBlock(WriteBlock(WriteBlock(placed_mirrors,
                     _mirrored_circles(<<5, 5>>, 3), 0),
                     _mirrored_circles(<<1, 1>>, 2), 9),
                     _mirrored_circles(<<9, 9>>, 1), 18)
           /\ C1_NoOverlap
           /\ pc = "done"
           /\ PackedResult = {<<5, 5, 3>>, <<1, 1, 2>>, <<9, 9, 1>>}

(* C5: place_circles returns a result, and every record of it has a radius *)
(* > 0 and is a stored image of an accepted circle, also when radii were   *)
(* dropped and rows of the store are still zero.                           *)
C5_ResultHasNoSentinel ==
    Ended =>
        /\ pc = "done"
        /\ \A rec \in PackedResult :
              rec[3] > 0 /\ \E k \in Rows : Accepted(k) /\ placed_mirrors[k] = rec

(* C6: a stored image of an accepted circle is in the result exactly when  *)
(* its center is in the closed voxel or an edge is nearer than r, and then *)
(* it is there once.                                                       *)
C6_ResultIsSelection ==
    Ended =>
        \A k \in Rows :
            Accepted(k) =>
                /\ (placed_mirrors[k] \in PackedResult)
                       <=> (InVoxel(placed_mirrors[k]) \/ CrossesBoundary(placed_mirrors[k]))
                /\ Cardinality({j \in DOMAIN circles : circles[j] = placed_mirrors[k]}) <= 1

(* C7: place_circles takes each radius once, makes at most max_iterations  *)
(* attempts for it, and ends in Done without raising an error.             *)
C7_EndsWithoutError ==
    /\ ridx <= N
    /\ i <= max_iterations
    /\ pc # "TypeError"

(* C8: the store is append-only: a step changes it only by an acceptance,  *)
(* the k-th acceptance writes the candidate's 9 images into rows           *)
(* 9(k-1) .. 9k-1, which were all zero and lie inside the store, and every *)
(* other row keeps its value.                                              *)
C8_StoreStep ==
    \/ placed_mirrors' = placed_mirrors
    \/ \E k \in 1 .. N :
          /\ Cardinality(AcceptedBlocks(placed_mirrors)) = k - 1
          /\ ~placed /\ placed'
          /\ \A s \in (9 * (k - 1)) .. (9 * k - 1) :
                /\ s \in Rows
                /\ placed_mirrors[s] = Sentinel
                /\ placed_mirrors'[s] = mirrors'[s - 9 * (k - 1)]
                /\ placed_mirrors'[s] # Sentinel
          /\ \A s \in Rows \ ((9 * (k - 1)) .. (9 * k - 1)) :
                placed_mirrors'[s] = placed_mirrors[s]
          /\ DOMAIN placed_mirrors' = Rows

C8_AppendOnly == [][C8_StoreStep]_vars

\* two circles are stored and a later candidate has been rejected
C8_Witness ==
    /\ Cardinality(AcceptedBlocks(placed_mirrors)) >= 2
    /\ intersects
    /\ ~placed
    /\ pc = "for"

(* C9: for every accepted circle with center (x, y) and radius r the       *)
(* result holds (x, y, r), and the image shifted by voxel_size across each *)
(* edge that is nearer than r.                                             *)
C9_WrapsAcrossEdges ==
    Ended =>
        \A b \in AcceptedBlocks(placed_mirrors) :
            LET x == placed_mirrors[9 * b][1]
                y == placed_mirrors[9 * b][2]
                r == placed_mirrors[9 * b][3]
            IN  /\ <<x, y, r>> \in PackedResult
                /\ (x < r) => (<<x + voxel_size, y, r>> \in PackedResult)
                /\ (voxel_size - x < r) => (<<x - voxel_size, y, r>> \in PackedResult)
                /\ (y < r) => (<<x, y + voxel_size, r>> \in PackedResult)
                /\ (voxel_size - y < r) => (<<x, y - voxel_size, r>> \in PackedResult)

(* C10: two distinct images of one accepted circle have centers at least   *)
(* 2r apart.                                                               *)
C10_NoSelfOverlap ==
    \A a \in Rows, b \in Rows :
        (Accepted(a) /\ Accepted(b) /\ Block(a) = Block(b) /\ a # b)
            => cdist2(placed_mirrors[a], placed_mirrors[b])
                   >= Sq(2 * placed_mirrors[a][3])

====
